---- MODULE Spec2Model ----
(***************************************************************************)
(* Permission graph (graph.py, node.py, edge.py): an adjacency-indexed     *)
(* store of nodes and edges with its hierarchy traversals and permission   *)
(* resolution.                                                             *)
(*                                                                         *)
(* The graph is the three dictionaries of Graph.__init__.  A dictionary is *)
(* a function whose DOMAIN is its key set; a list is a sequence.  Every    *)
(* public method is one action; what the caller observes of the call (the  *)
(* items the iterator produced, the exception that ended it) is recorded   *)
(* in the variable last.                                                   *)
(***************************************************************************)
EXTENDS Naturals, Sequences, FiniteSets

VARIABLES nodes, out_edges, in_edges, last

vars == <<nodes, out_edges, in_edges, last>>

(***************************************************************************)
(* Bounds of the model.                                                    *)
(***************************************************************************)
\* Most edges a graph of the storage specification holds (add_edge of a
\* valid edge is disabled beyond it; a rejected edge is always possible).
MaxEdges == 2
\* Most edges a graph of the hierarchy and permission specifications holds.
MaxHierEdges == 4
\* Depth of nested generator frames at which the interpreter raises
\* RecursionError (sys.getrecursionlimit(), 1000 by default, scaled down).
\* It exceeds the longest acyclic chain the ids allow.
RecursionLimit == 6

(***************************************************************************)
(* Values: node.py and edge.py                                             *)
(***************************************************************************)
IDENTITY == "identity"
RESOURCE == "resource"
PARENT_OF == "parent_of"
HAS_ROLE == "has_role"
OWNER == "owner"
VIEWER == "viewer"
NoRole == "no_role"

Node(type, inner_type, id) == [type |-> type, inner_type |-> inner_type, id |-> id]
IdentityNode(identity_id, inner_type) == Node(IDENTITY, inner_type, identity_id)
ResourceNode(resource_id, inner_type) == Node(RESOURCE, inner_type, resource_id)

Edge(source, target, type, role) ==
    [source |-> source, target |-> target, type |-> type, role |-> role]
ParentOfEdge(parent, child) == Edge(parent, child, PARENT_OF, NoRole)
HasRoleEdge(identity, resource, role) == Edge(identity, resource, HAS_ROLE, role)

PermissionEntry(resource_id, resource_type, role) ==
    [resource_id |-> resource_id, resource_type |-> resource_type, role |-> role]

\* Optional[Node]'s None.
None == Node("NoneType", "None", "None")

(***************************************************************************)
(* Dictionaries                                                            *)
(***************************************************************************)
EmptyDict == [k \in {} |-> <<>>]

\* d[k] = v
dict_set(d, k, v) == [x \in DOMAIN d \cup {k} |-> IF x = k THEN v ELSE d[x]]

\* d.get(k, default): no key is created, also on a defaultdict.
dict_get(d, k, default) == IF k \in DOMAIN d THEN d[k] ELSE default

\* defaultdict(list).__getitem__: a missing key is created with an empty list.
defaultdict_lookup(d, k) == IF k \in DOMAIN d THEN d ELSE dict_set(d, k, <<>>)

\* Faulty variant of lookup: d[k] instead of d.get(k, []), which on a
\* defaultdict creates the missing key.
lookup_creating(d, k) ==
    [value |-> dict_get(d, k, <<>>), dict |-> defaultdict_lookup(d, k)]

\* d.get(k, []) as graph.py reads an adjacency index: the list found and the
\* dictionary after the read.
lookup(d, k) == [value |-> dict_get(d, k, <<>>), dict |-> d]

(***************************************************************************)
(* Sequence helpers                                                        *)
(***************************************************************************)
RECURSIVE Flatten(_)
Flatten(ss) == IF ss = <<>> THEN <<>> ELSE Head(ss) \o Flatten(Tail(ss))

(***************************************************************************)
(* Graph: node and edge lookups (graph.py)                                 *)
(***************************************************************************)
get_node(node_id) == dict_get(nodes, node_id, None)

iter_out_edges(node_id) == lookup(out_edges, node_id).value

iter_in_edges(node_id) == lookup(in_edges, node_id).value

IsParentOf(edge) == edge.type = PARENT_OF

\* [edge.target for edge in edges]
Targets(edges) == [i \in 1..Len(edges) |-> edges[i].target]

\* [edge.source for edge in edges]
Sources(edges) == [i \in 1..Len(edges) |-> edges[i].source]

\* Faulty variant of iter_children: the edge type is not tested.
iter_children_all_edges(node_id) ==
    Targets(lookup(out_edges, node_id).value)

iter_children(node_id) ==
    Targets(SelectSeq(lookup(out_edges, node_id).value, IsParentOf))

\* Faulty variant of iter_parents: the edge type is not tested.
iter_parents_all_edges(node_id) ==
    Sources(lookup(in_edges, node_id).value)

iter_parents(node_id) ==
    Sources(SelectSeq(lookup(in_edges, node_id).value, IsParentOf))

(***************************************************************************)
(* _iter_descendants: a generator that recurses with `yield from`.  Every  *)
(* level of the recursion is one more generator frame on the interpreter's *)
(* stack; past RecursionLimit frames the interpreter raises RecursionError *)
(* and the items produced so far are all the caller gets.  The result is   *)
(* [out: the items produced, raised: the exception or "none"].             *)
(***************************************************************************)
Returned(out) == [out |-> out, raised |-> "none"]
Raised(out, exception) == [out |-> out, raised |-> exception]

RECURSIVE iter_descendants(_, _)
RECURSIVE descend_children(_, _, _)

\* The for loop of _iter_descendants from its i-th child on.
descend_children(children, i, depth) ==
    IF i > Len(children) THEN Returned(<<>>)
    ELSE LET child == children[i]
             below == iter_descendants(child.id, depth + 1)
         IN  IF below.raised # "none"
             THEN Raised(<<child>> \o below.out, below.raised)
             ELSE LET rest == descend_children(children, i + 1, depth)
                  IN  Raised(<<child>> \o below.out \o rest.out, rest.raised)

iter_descendants(node_id, depth) ==
    IF depth > RecursionLimit THEN Raised(<<>>, "RecursionError")
    ELSE descend_children(iter_children(node_id), 1, depth)

(***************************************************************************)
(* iter_resource_hierarchy: breadth-first walk over iter_parents           *)
(***************************************************************************)
\* queue.append(parent.id)
enqueue(queue, node_id) == Append(queue, node_id)

RECURSIVE visit_parents(_, _, _, _, _)
\* The for loop over the parents of the dequeued id, from the i-th on.
visit_parents(parents, i, queue, visited, out) ==
    IF i > Len(parents)
    THEN [queue |-> queue, visited |-> visited, out |-> out]
    ELSE LET parent == parents[i]
         IN  IF parent.id \in visited
             THEN visit_parents(parents, i + 1, queue, visited, out)
             ELSE visit_parents(parents, i + 1, enqueue(queue, parent.id),
                                visited \cup {parent.id}, Append(out, parent))

RECURSIVE depth_first(_, _, _, _)
\* The parents from the i-th on, each followed at once by its own ancestors.
depth_first(parents, i, visited, out) ==
    IF i > Len(parents) THEN [visited |-> visited, out |-> out]
    ELSE LET parent == parents[i]
         IN  IF parent.id \in visited
             THEN depth_first(parents, i + 1, visited, out)
             ELSE LET above == depth_first(iter_parents(parent.id), 1,
                                           visited \cup {parent.id},
                                           Append(out, parent))
                  IN  depth_first(parents, i + 1, above.visited, above.out)

\* Faulty variant of hierarchy_loop: the walk is depth-first.
hierarchy_loop_depth_first(queue, visited, out) ==
    IF queue = <<>> THEN out
    ELSE depth_first(iter_parents(Head(queue)), 1, visited, out).out

RECURSIVE hierarchy_loop(_, _, _)
\* while queue: ...
hierarchy_loop(queue, visited, out) ==
    IF queue = <<>> THEN out
    ELSE LET current_id == Head(queue)
             s == visit_parents(iter_parents(current_id), 1, Tail(queue),
                                visited, out)
         IN  hierarchy_loop(s.queue, s.visited, s.out)

iter_resource_hierarchy(resource_id) ==
    Returned(hierarchy_loop(<<resource_id>>, {}, <<>>))

(***************************************************************************)
(* iter_user_permissions                                                   *)
(***************************************************************************)
\* Faulty variant of role_entries: an inherited entry takes its resource_type
\* from the granted resource instead of the descendant.
role_entries_target_type(edge) ==
    LET target_resource == edge.target
        role == edge.role
        direct == PermissionEntry(target_resource.id,
                                  target_resource.inner_type, role)
        below == iter_descendants(target_resource.id, 2)
        Inherited(descendant_node) ==
            PermissionEntry(descendant_node.id, target_resource.inner_type, role)
    IN  Raised(<<direct>> \o [j \in 1..Len(below.out) |-> Inherited(below.out[j])], below.raised)

\* The entries of one HAS_ROLE edge: the direct grant, then one entry per
\* descendant of its target, all with the edge's role.  The descendants
\* generator runs one frame below the permissions generator.
role_entries(edge) ==
    LET target_resource == edge.target
        role == edge.role
        direct == PermissionEntry(target_resource.id,
                                  target_resource.inner_type, role)
        below == iter_descendants(target_resource.id, 2)
        Inherited(descendant_node) ==
            PermissionEntry(descendant_node.id, descendant_node.inner_type, role)
    IN  Raised(<<direct>> \o [j \in 1..Len(below.out) |-> Inherited(below.out[j])], below.raised)

RECURSIVE permissions_loop(_, _)
\* The for loop over the identity's outgoing edges, from the i-th on.
permissions_loop(edges, i) ==
    IF i > Len(edges) THEN Returned(<<>>)
    ELSE IF edges[i].type # HAS_ROLE THEN permissions_loop(edges, i + 1)
    ELSE LET granted == role_entries(edges[i])
         IN  IF granted.raised # "none" THEN granted
             ELSE LET rest == permissions_loop(edges, i + 1)
                  IN  Raised(granted.out \o rest.out, rest.raised)

\* Faulty variant of iter_user_permissions: the identity is not looked up.
iter_user_permissions_unchecked(node_identity_id) ==
    permissions_loop(iter_out_edges(node_identity_id), 1)

iter_user_permissions(node_identity_id) ==
    IF get_node(node_identity_id) = None
    THEN Raised(<<>>, "NodeNotFoundError")
    ELSE permissions_loop(iter_out_edges(node_identity_id), 1)

(***************************************************************************)
(* Actions: one per public method.                                         *)
(***************************************************************************)
Call(op, arg, result) ==
    [op |-> op, arg |-> arg, out |-> result.out, raised |-> result.raised]

RECURSIVE CountEdges(_, _)
\* The edges listed under the keys in `keys` of adjacency index d.
CountEdges(d, keys) ==
    IF keys = {} THEN 0
    ELSE LET k == CHOOSE x \in keys : TRUE
         IN  Len(d[k]) + CountEdges(d, keys \ {k})

NumEdges == CountEdges(out_edges, DOMAIN out_edges)

Init ==
    /\ nodes = EmptyDict
    /\ out_edges = EmptyDict
    /\ in_edges = EmptyDict
    /\ last = Call("__init__", "", Returned(<<>>))

\* Faulty variant of add_node: a stored node is overwritten.
add_node_overwrite(node) ==
    /\ nodes' = dict_set(nodes, node.id, node)
    /\ UNCHANGED <<out_edges, in_edges>>
    /\ last' = Call("add_node", node, Returned(<<>>))

add_node(node) ==
    /\ nodes' = IF node.id \notin DOMAIN nodes
                THEN dict_set(nodes, node.id, node)
                ELSE nodes
    /\ UNCHANGED <<out_edges, in_edges>>
    /\ last' = Call("add_node", node, Returned(<<>>))

\* self.<index>[key].append(edge) on a defaultdict(list)
append_edge(index, key, edge) ==
    LET d == defaultdict_lookup(index, key)
    IN  dict_set(d, key, Append(d[key], edge))

\* Faulty variant of add_edge: the target is validated after the outgoing
\* index was appended to.
add_edge_partial(edge) ==
    IF edge.source.id \notin DOMAIN nodes
    THEN /\ last' = Call("add_edge", edge, Raised(<<>>, "ValueError"))
         /\ UNCHANGED <<nodes, out_edges, in_edges>>
    ELSE IF edge.target.id \notin DOMAIN nodes
    THEN /\ out_edges' = append_edge(out_edges, edge.source.id, edge)
         /\ last' = Call("add_edge", edge, Raised(<<>>, "ValueError"))
         /\ UNCHANGED <<nodes, in_edges>>
    ELSE /\ out_edges' = append_edge(out_edges, edge.source.id, edge)
         /\ in_edges' = append_edge(in_edges, edge.target.id, edge)
         /\ UNCHANGED nodes
         /\ last' = Call("add_edge", edge, Returned(<<>>))

\* Faulty variant of add_edge: only the source is validated.
add_edge_source_only(edge) ==
    IF edge.source.id \notin DOMAIN nodes
    THEN /\ last' = Call("add_edge", edge, Raised(<<>>, "ValueError"))
         /\ UNCHANGED <<nodes, out_edges, in_edges>>
    ELSE /\ out_edges' = append_edge(out_edges, edge.source.id, edge)
         /\ in_edges' = append_edge(in_edges, edge.target.id, edge)
         /\ UNCHANGED nodes
         /\ last' = Call("add_edge", edge, Returned(<<>>))

add_edge(edge) ==
    IF edge.source.id \notin DOMAIN nodes \/ edge.target.id \notin DOMAIN nodes
    THEN /\ last' = Call("add_edge", edge, Raised(<<>>, "ValueError"))
         /\ UNCHANGED <<nodes, out_edges, in_edges>>
    ELSE /\ out_edges' = append_edge(out_edges, edge.source.id, edge)
         /\ in_edges' = append_edge(in_edges, edge.target.id, edge)
         /\ UNCHANGED nodes
         /\ last' = Call("add_edge", edge, Returned(<<>>))

\* get_node returns one value: out holds it, None included.
call_get_node(node_id) ==
    /\ last' = Call("get_node", node_id, Returned(<<get_node(node_id)>>))
    /\ UNCHANGED <<nodes, out_edges, in_edges>>

call_iter_out_edges(node_id) ==
    /\ last' = Call("iter_out_edges", node_id, Returned(iter_out_edges(node_id)))
    /\ out_edges' = lookup(out_edges, node_id).dict
    /\ UNCHANGED <<nodes, in_edges>>

call_iter_in_edges(node_id) ==
    /\ last' = Call("iter_in_edges", node_id, Returned(iter_in_edges(node_id)))
    /\ in_edges' = lookup(in_edges, node_id).dict
    /\ UNCHANGED <<nodes, out_edges>>

call_iter_children(node_id) ==
    /\ last' = Call("iter_children", node_id, Returned(iter_children(node_id)))
    /\ out_edges' = lookup(out_edges, node_id).dict
    /\ UNCHANGED <<nodes, in_edges>>

call_iter_parents(node_id) ==
    /\ last' = Call("iter_parents", node_id, Returned(iter_parents(node_id)))
    /\ in_edges' = lookup(in_edges, node_id).dict
    /\ UNCHANGED <<nodes, out_edges>>

\* list(g._iter_descendants(node_id)): the outermost generator is frame 1.
call_iter_descendants(node_id) ==
    /\ last' = Call("iter_descendants", node_id, iter_descendants(node_id, 1))
    /\ UNCHANGED <<nodes, out_edges, in_edges>>

call_iter_resource_hierarchy(resource_id) ==
    /\ last' = Call("iter_resource_hierarchy", resource_id,
                    iter_resource_hierarchy(resource_id))
    /\ UNCHANGED <<nodes, out_edges, in_edges>>

call_iter_user_permissions(node_identity_id) ==
    /\ last' = Call("iter_user_permissions", node_identity_id,
                    iter_user_permissions(node_identity_id))
    /\ UNCHANGED <<nodes, out_edges, in_edges>>

(***************************************************************************)
(* Inputs and specifications                                               *)
(***************************************************************************)
\* Whether add_edge(edge) would store the edge.
Storable(edge) == edge.source.id \in DOMAIN nodes /\ edge.target.id \in DOMAIN nodes

\* Storage specification: three ids, one of them with two different node
\* values; every hierarchy edge between any two node values and every role
\* assignment of the identity.
Ids == {"u", "a", "b"}
NodeInputs ==
    { IdentityNode("u", "User"), ResourceNode("a", "Folder"),
      ResourceNode("a", "Project"), ResourceNode("b", "Folder") }
EdgeInputs ==
    { ParentOfEdge(p, c) : p \in NodeInputs, c \in NodeInputs }
    \cup { HasRoleEdge(IdentityNode("u", "User"), r, role) :
               r \in NodeInputs, role \in {OWNER} }

Next ==
    \/ \E node \in NodeInputs : add_node(node)
    \/ \E edge \in EdgeInputs :
          /\ Storable(edge) => NumEdges < MaxEdges
          /\ add_edge(edge)
    \/ \E id \in Ids : call_get_node(id)
    \/ \E id \in Ids : call_iter_out_edges(id)
    \/ \E id \in Ids : call_iter_in_edges(id)
    \/ \E id \in Ids : call_iter_children(id)
    \/ \E id \in Ids : call_iter_parents(id)
    \/ \E id \in Ids : call_iter_descendants(id)
    \/ \E id \in Ids : call_iter_resource_hierarchy(id)
    \/ \E id \in Ids : call_iter_user_permissions(id)

Spec == Init /\ [][Next]_vars

\* Hierarchy specification: four ids with one node value each, every
\* hierarchy edge between any two of them and a role assignment of the
\* identity on every resource.
HierIds == {"u", "a", "b", "c"}
HierNodes ==
    { IdentityNode("u", "User"), ResourceNode("a", "Organization"),
      ResourceNode("b", "Folder"), ResourceNode("c", "Project") }
HierEdges ==
    { ParentOfEdge(p, c) : p \in HierNodes, c \in HierNodes }
    \cup { HasRoleEdge(IdentityNode("u", "User"), r, OWNER) :
               r \in HierNodes \ {IdentityNode("u", "User")} }

NextHier ==
    \/ \E node \in HierNodes : add_node(node)
    \/ \E edge \in HierEdges :
          /\ Storable(edge) => NumEdges < MaxHierEdges
          /\ add_edge(edge)
    \/ \E id \in HierIds : call_iter_descendants(id)
    \/ \E id \in HierIds : call_iter_resource_hierarchy(id)

SpecHier == Init /\ [][NextHier]_vars

\* Permission specification: the identity's hierarchy edges and role
\* assignments (two roles) on a hierarchy of three resources.
PermResources ==
    { ResourceNode("a", "Organization"), ResourceNode("b", "Folder"),
      ResourceNode("c", "Project") }
PermEdges ==
    { ParentOfEdge(p, c) : p \in HierNodes, c \in PermResources }
    \cup { HasRoleEdge(IdentityNode("u", "User"), r, role) :
               r \in PermResources, role \in {OWNER, VIEWER} }

NextPerm ==
    \/ \E node \in HierNodes : add_node(node)
    \/ \E edge \in PermEdges :
          /\ Storable(edge) => NumEdges < MaxHierEdges
          /\ add_edge(edge)
    \/ \E id \in HierIds : call_iter_user_permissions(id)

SpecPerm == Init /\ [][NextPerm]_vars

(***************************************************************************)
(* Properties.  What the graph holds is read off the outgoing index alone, *)
(* edge by edge, and not through the traversal methods.                    *)
(***************************************************************************)
Range(s) == {s[i] : i \in 1..Len(s)}
StoredEdges == UNION {Range(out_edges[k]) : k \in DOMAIN out_edges}
ParentEdges == {e \in StoredEdges : e.type = PARENT_OF}
ParentIdsOf(x) == {e.source.id : e \in {f \in ParentEdges : f.target.id = x}}
ChildIdsOf(x) == {e.target.id : e \in {f \in ParentEdges : f.source.id = x}}

\* The outgoing edges of x of one type, in insertion order.
OutEdgesOfType(x, type) ==
    IF x \in DOMAIN out_edges
    THEN SelectSeq(out_edges[x], LAMBDA e : e.type = type)
    ELSE <<>>

RECURSIVE UpDistance(_, _, _, _)
\* Breadth-first levels upward: the level at which y is first met, 0 if never.
UpDistance(y, frontier, seen, k) ==
    IF y \in frontier THEN k
    ELSE IF frontier = {} THEN 0
    ELSE LET next == (UNION {ParentIdsOf(x) : x \in frontier}) \ seen
         IN  UpDistance(y, next, seen \cup next, k + 1)

\* The least number (>= 1) of upward PARENT_OF steps from r to y, 0 if none.
Distance(r, y) == UpDistance(y, ParentIdsOf(r), ParentIdsOf(r), 1)
AncestorIds(r) == {y \in DOMAIN nodes : Distance(r, y) > 0}

RECURSIVE DownClosure(_, _)
DownClosure(frontier, seen) ==
    IF frontier = {} THEN seen
    ELSE LET next == (UNION {ChildIdsOf(x) : x \in frontier}) \ seen
         IN  DownClosure(next, seen \cup next)
DescendantIds(x) == DownClosure(ChildIdsOf(x), ChildIdsOf(x))

\* No node is its own descendant.
Acyclic == \A x \in DOMAIN nodes : x \notin DescendantIds(x)

RECURSIVE PathsFrom(_, _, _)
\* The downward PARENT_OF paths (sequences of edges) that lead from x to y,
\* counted over the parent edges of x from the i-th on; for acyclic graphs.
PathsFrom(x, y, i) ==
    LET es == OutEdgesOfType(x, PARENT_OF)
    IN  IF i > Len(es) THEN 0
        ELSE (IF es[i].target.id = y THEN 1 ELSE 0)
             + PathsFrom(es[i].target.id, y, 1)
             + PathsFrom(x, y, i + 1)
PathCount(x, y) == PathsFrom(x, y, 1)

Occurrences(s, id) == Cardinality({i \in 1..Len(s) : s[i].id = id})

TraversalOps ==
    { "iter_out_edges", "iter_in_edges", "iter_children", "iter_parents",
      "iter_descendants", "iter_resource_hierarchy", "iter_user_permissions" }
ReadOps == TraversalOps \cup {"get_node"}

(***************************************************************************)
(* Storage                                                                 *)
(***************************************************************************)
\* index_after is index with edge appended to the list under key.
AppendedTo(index, index_after, key, edge) ==
    /\ DOMAIN index_after = DOMAIN index \cup {key}
    /\ index_after[key] =
           Append(IF key \in DOMAIN index THEN index[key] ELSE <<>>, edge)
    /\ \A k \in DOMAIN index \ {key} : index_after[k] = index[k]

AddEdgeStep ==
    last'.op = "add_edge" =>
        LET e == last'.arg
        IN  IF e.source.id \notin DOMAIN nodes \/ e.target.id \notin DOMAIN nodes
            THEN /\ last'.raised = "ValueError"
                 /\ nodes' = nodes /\ out_edges' = out_edges /\ in_edges' = in_edges
            ELSE /\ last'.raised = "none"
                 /\ nodes' = nodes
                 /\ AppendedTo(out_edges, out_edges', e.source.id, e)
                 /\ AppendedTo(in_edges, in_edges', e.target.id, e)

\* C3: add_edge(e) with e.source.id or e.target.id not stored raises
\* ValueError and leaves the node map and both indexes unchanged; with both
\* stored it appends e to the end of out_edges[e.source.id] and of
\* in_edges[e.target.id] and changes nothing else.
C3_AddEdgeValidatesThenAppends == [][AddEdgeStep]_vars

\* A rejected edge whose source is stored and whose target is not, in a graph
\* that already holds an edge.
C3_Witness ==
    /\ last.op = "add_edge"
    /\ last.raised = "ValueError"
    /\ last.arg.source.id \in DOMAIN nodes
    /\ last.arg.target.id \notin DOMAIN nodes
    /\ NumEdges > 0

AddNodeStep ==
    (last'.op = "add_node" /\ last'.arg.id \in DOMAIN nodes) =>
        /\ nodes' = nodes /\ out_edges' = out_edges /\ in_edges' = in_edges
        /\ last'.raised = "none"

\* C5: add_node(n) with n.id already stored (n the stored node or another
\* node of the same id) changes neither the node map nor the indexes and
\* raises nothing.
C5_AddNodeIdempotent == [][AddNodeStep]_vars

\* add_node was called with a node that differs from the one stored under
\* its id, and the stored one is still there.
C5_Witness ==
    /\ last.op = "add_node"
    /\ last.arg.id \in DOMAIN nodes
    /\ nodes[last.arg.id] # last.arg
    /\ NumEdges > 0

\* How often edge is listed in an adjacency index.
CountIn(index, edge) ==
    CountEdges([k \in DOMAIN index |-> SelectSeq(index[k], LAMBDA e : e = edge)],
               DOMAIN index)

IndexWellFormed ==
    /\ DOMAIN out_edges \subseteq DOMAIN nodes
    /\ DOMAIN in_edges \subseteq DOMAIN nodes
    /\ \A k \in DOMAIN out_edges : \A e \in Range(out_edges[k]) : e.source.id = k
    /\ \A k \in DOMAIN in_edges : \A e \in Range(in_edges[k]) : e.target.id = k
    /\ LET in_all == UNION {Range(in_edges[k]) : k \in DOMAIN in_edges}
       IN  \A e \in StoredEdges \cup in_all :
               CountIn(out_edges, e) = CountIn(in_edges, e)

ReadStep ==
    last'.op \in ReadOps =>
        nodes' = nodes /\ out_edges' = out_edges /\ in_edges' = in_edges

\* C10: every key of out_edges and of in_edges is a stored id, every edge
\* under out_edges[k] has source.id = k, every edge under in_edges[k] has
\* target.id = k, both indexes hold the same multiset of edges, and a read
\* operation changes neither index (nor the node map).
C10_IndexWellFormed == []IndexWellFormed /\ [][ReadStep]_vars

\* A read of an id that is not stored, on a graph that holds two edges under
\* one key.
C10_Witness ==
    /\ last.op \in {"iter_out_edges", "iter_in_edges", "iter_children", "iter_parents"}
    /\ last.arg \notin DOMAIN nodes
    /\ \E k \in DOMAIN out_edges : Len(out_edges[k]) = 2

(***************************************************************************)
(* Queries on the stored graph                                             *)
(***************************************************************************)
\* The HAS_ROLE edges of the id asked about, read off the index.
NoRoleHeld(id) == OutEdgesOfType(id, HAS_ROLE) = <<>>

\* C4: iter_user_permissions(id) raises NodeNotFoundError exactly when id is
\* not stored, and then it has produced no entry; for a stored id without
\* outgoing HAS_ROLE edges it produces nothing and raises nothing.
C4_PermissionsNotFoundIffUnknown ==
    last.op = "iter_user_permissions" =>
        /\ last.raised = "NodeNotFoundError" <=> last.arg \notin DOMAIN nodes
        /\ last.arg \notin DOMAIN nodes => last.out = <<>>
        /\ (last.arg \in DOMAIN nodes /\ NoRoleHeld(last.arg)) =>
               (last.out = <<>> /\ last.raised = "none")

\* The permissions of an unknown id were asked for while another identity
\* holds a role.
C4_Witness ==
    /\ last.op = "iter_user_permissions"
    /\ last.raised = "NodeNotFoundError"
    /\ \E e \in StoredEdges : e.type = HAS_ROLE

\* Neither index lists an edge from or to id.
NoEdgesAt(id) ==
    /\ \A e \in StoredEdges : e.source.id # id /\ e.target.id # id
    /\ \A k \in DOMAIN in_edges : \A e \in Range(in_edges[k]) :
           e.source.id # id /\ e.target.id # id

\* C9: iter_out_edges, iter_in_edges, iter_children, iter_parents,
\* _iter_descendants and iter_resource_hierarchy of an id that is not stored
\* produce nothing and raise nothing, as they do for a stored node without
\* edges.
C9_UnknownIdYieldsEmpty ==
    (/\ last.op \in TraversalOps \ {"iter_user_permissions"}
     /\ (last.arg \notin DOMAIN nodes \/ NoEdgesAt(last.arg))) =>
        (last.out = <<>> /\ last.raised = "none")

\* The ancestors of an unknown id were asked for on a graph with a
\* hierarchy edge.
C9_Witness ==
    /\ last.op \in {"iter_resource_hierarchy", "iter_descendants"}
    /\ last.arg \notin DOMAIN nodes
    /\ ParentEdges # {}

\* C7: every traversal ends without exhausting the interpreter's stack and
\* produces at most as many items as the graph holds nodes and edges.
C7_TraversalBoundedByGraphSize ==
    last.op \in TraversalOps =>
        /\ last.raised # "RecursionError"
        /\ Len(last.out) <= Cardinality(DOMAIN nodes) + NumEdges

\* C8: every node a traversal produces is the node stored under its id, and
\* every permission entry has the subtype of the node stored under its
\* resource_id.
C8_TraversalYieldsStoredNodes ==
    /\ last.op \in {"iter_children", "iter_parents", "iter_descendants",
                    "iter_resource_hierarchy"} =>
           \A i \in 1..Len(last.out) : last.out[i] = get_node(last.out[i].id)
    /\ last.op = "iter_user_permissions" =>
           \A i \in 1..Len(last.out) :
               last.out[i].resource_type = get_node(last.out[i].resource_id).inner_type

(***************************************************************************)
(* Hierarchy traversal                                                     *)
(***************************************************************************)
IdsOf(s) == [i \in 1..Len(s) |-> s[i].id]

\* What list(_iter_descendants(x)) is on an acyclic hierarchy.
Descendants(x) == iter_descendants(x, 1).out

\* For each parent edge of x in insertion order: its target, then the
\* descendants of its target.
ChildThenSubtree(x) ==
    LET es == OutEdgesOfType(x, PARENT_OF)
    IN  Flatten([i \in 1..Len(es) |->
                    <<es[i].target>> \o Descendants(es[i].target.id)])

\* C6: on an acyclic hierarchy _iter_descendants(x) ends normally and is, for
\* each outgoing PARENT_OF edge of x in insertion order, the edge's target
\* followed by the descendants of that target; every item is directly
\* followed by its own descendants; and every node occurs once per downward
\* PARENT_OF path from x to it (so never through a HAS_ROLE edge).
C6_DescendantsPreOrder ==
    (Acyclic /\ last.op = "iter_descendants") =>
        /\ last.raised = "none"
        /\ last.out = ChildThenSubtree(last.arg)
        /\ \A i \in 1..Len(last.out) :
               LET below == Descendants(last.out[i].id)
               IN  /\ i + Len(below) <= Len(last.out)
                   /\ SubSeq(last.out, i + 1, i + Len(below)) = below
        /\ \A y \in DOMAIN nodes :
               Occurrences(last.out, y) = PathCount(last.arg, y)

\* The descendants of the top of an acyclic hierarchy in which one node is
\* reached along two paths and a role is held on a node of the hierarchy.
C6_Witness ==
    /\ Acyclic
    /\ last.op = "iter_descendants"
    /\ \E y \in DOMAIN nodes : PathCount(last.arg, y) = 2
    /\ Cardinality(Range(IdsOf(last.out))) >= 2
    /\ \E e \in StoredEdges : e.type = HAS_ROLE /\ e.source.id = last.arg

\* C2: iter_resource_hierarchy(r) ends normally on every graph, produces
\* every id reachable from r by one or more upward PARENT_OF steps exactly
\* once and nothing else, and never produces a node after one that is
\* farther from r.
C2_AncestorsBreadthFirst ==
    last.op = "iter_resource_hierarchy" =>
        LET r == last.arg
            ids == IdsOf(last.out)
        IN  /\ last.raised = "none"
            /\ Range(ids) = AncestorIds(r)
            /\ \A i, j \in 1..Len(ids) : i # j => ids[i] # ids[j]
            /\ \A i, j \in 1..Len(ids) :
                   i < j => Distance(r, ids[i]) <= Distance(r, ids[j])

\* The ancestors of a node with two parents that share a parent of their
\* own: the two parents first, the shared grandparent once.
C2_Witness ==
    /\ last.op = "iter_resource_hierarchy"
    /\ Len(last.out) = 3
    /\ LET r == last.arg
           ids == IdsOf(last.out)
       IN  /\ ParentIdsOf(r) = {ids[1], ids[2]}
           /\ ids[1] # ids[2]
           /\ r \notin Range(ids)
           /\ ids[3] \in ParentIdsOf(ids[1]) \cap ParentIdsOf(ids[2])

(***************************************************************************)
(* Permission resolution                                                   *)
(***************************************************************************)
\* The entries one HAS_ROLE edge stands for: its target, then the
\* descendants of its target, all with the role of the edge.
GrantOf(e) ==
    LET below == Descendants(e.target.id)
    IN  <<PermissionEntry(e.target.id, e.target.inner_type, e.role)>>
        \o [j \in 1..Len(below) |->
               PermissionEntry(below[j].id, below[j].inner_type, e.role)]

====
